---- MODULE Spec2Model ----
(***************************************************************************)
(* Model of src/inventory_system.py: the module-level dictionary           *)
(* stock_data and the functions add_item, remove_item, get_qty, load_data, *)
(* save_data, print_data and check_low_items.                              *)
(*                                                                         *)
(* Python values are records [t, n, s]; a str is the sequence of its       *)
(* characters; a float is kept in halves (n/2) so that int() truncates; a  *)
(* dict is the sequence of its <<key, value>> pairs in insertion order.    *)
(* A file is what json.load makes of its text: missing, not UTF-8, not     *)
(* JSON, a JSON document whose root is no object, or the member list of a  *)
(* root object whose numbers are still the literals written in the text.   *)
(***************************************************************************)
EXTENDS Integers, Sequences, FiniteSets, TLC

\* ------------------------------------------------------------------ bounds
MaxQty == 2        \* quantities kept in the dictionary stay in -1..MaxQty

\* ------------------------------------------------------------ Python values
PyInt(n)   == [t |-> "int",   n |-> n, s |-> <<>>]
PyBool(b)  == [t |-> "bool",  n |-> IF b THEN 1 ELSE 0, s |-> <<>>]
PyFloat(h) == [t |-> "float", n |-> h, s |-> <<>>]
PyStr(s)   == [t |-> "str",   n |-> 0, s |-> s]
PyInf      == [t |-> "inf",   n |-> 0, s |-> <<>>]
PyNaN      == [t |-> "nan",   n |-> 0, s |-> <<>>]
PyNone     == [t |-> "none",  n |-> 0, s |-> <<>>]
PyList     == [t |-> "list",  n |-> 0, s |-> <<>>]

Whitespace == {" "}
Digits     == {"0", "1", "2", "3", "4", "5", "6", "7", "8", "9"}
DigitVal   == [c \in Digits |->
                 CASE c = "0" -> 0 [] c = "1" -> 1 [] c = "2" -> 2 [] c = "3" -> 3
                   [] c = "4" -> 4 [] c = "5" -> 5 [] c = "6" -> 6 [] c = "7" -> 7
                   [] c = "8" -> 8 [] c = "9" -> 9]
DigitChar  == [d \in 0..9 |-> CHOOSE c \in Digits : DigitVal[c] = d]

\* code points of the characters the model uses, for the ordering of sorted()
CharCode(c) == CASE c = " " -> 32 [] c = "-" -> 45 [] c = "+" -> 43
                 [] c = "_" -> 95 [] c = ">" -> 62
                 [] c \in Digits -> 48 + DigitVal[c]
                 [] c = "a" -> 97 [] c = "b" -> 98 [] c = "c" -> 99
                 [] c = "e" -> 101 [] c = "n" -> 110 [] c = "t" -> 116
                 [] OTHER -> 200

\* str.strip(): drop the leading and the trailing whitespace
RECURSIVE LStrip(_)
LStrip(s) == IF s = <<>> THEN <<>>
             ELSE IF Head(s) \in Whitespace THEN LStrip(Tail(s)) ELSE s
RECURSIVE RStrip(_)
RStrip(s) == IF s = <<>> THEN <<>>
             ELSE IF s[Len(s)] \in Whitespace THEN RStrip(SubSeq(s, 1, Len(s) - 1))
             ELSE s
Strip(s) == RStrip(LStrip(s))

\* the value of a run of digits, single underscores skipped
RECURSIVE DigitsValue(_, _)
DigitsValue(b, acc) ==
  IF b = <<>> THEN acc
  ELSE IF Head(b) = "_" THEN DigitsValue(Tail(b), acc)
  ELSE DigitsValue(Tail(b), 10 * acc + DigitVal[Head(b)])

\* int(str): whitespace stripped, an optional sign, digits with single
\* underscores between them; anything else is a ValueError
StrToInt(s) ==
  LET u    == Strip(s)
      neg  == u # <<>> /\ Head(u) = "-"
      sgn  == u # <<>> /\ Head(u) \in {"-", "+"}
      b    == IF sgn THEN Tail(u) ELSE u
      good == /\ b # <<>>
              /\ b[1] \in Digits
              /\ b[Len(b)] \in Digits
              /\ \A i \in 1..Len(b) : b[i] \in Digits \cup {"_"}
              /\ \A i \in 1..(Len(b) - 1) : ~(b[i] = "_" /\ b[i + 1] = "_")
  IN IF good
     THEN [ok |-> TRUE, val |-> IF neg THEN 0 - DigitsValue(b, 0) ELSE DigitsValue(b, 0),
           exc |-> "none"]
     ELSE [ok |-> FALSE, val |-> 0, exc |-> "ValueError"]

\* the decimal text of an integer, as json.dump writes it
RECURSIVE Decimal(_)
Decimal(n) == IF n < 10 THEN <<DigitChar[n]>>
              ELSE Decimal(n \div 10) \o <<DigitChar[n % 10]>>
IntToStr(n) == IF n < 0 THEN <<"-">> \o Decimal(0 - n) ELSE Decimal(n)

\* int(v): the conversion add_item, remove_item, load_data and
\* check_low_items apply, with the exception it raises when it fails
ToInt(v) ==
  CASE v.t \in {"int", "bool"} -> [ok |-> TRUE, val |-> v.n, exc |-> "none"]
    [] v.t = "float" -> [ok |-> TRUE,
                         val |-> IF v.n >= 0 THEN v.n \div 2 ELSE 0 - ((0 - v.n) \div 2),
                         exc |-> "none"]
    [] v.t = "str"   -> StrToInt(v.s)
    [] v.t = "nan"   -> [ok |-> FALSE, val |-> 0, exc |-> "ValueError"]
    [] v.t = "inf"   -> [ok |-> FALSE, val |-> 0, exc |-> "OverflowError"]
    [] OTHER         -> [ok |-> FALSE, val |-> 0, exc |-> "TypeError"]

\* the exceptions the "except (ValueError, TypeError)" clauses catch
Caught(exc) == exc \in {"ValueError", "TypeError"}

\* ---------------------------------------------------- return values
RetBool(b)  == [kind |-> "bool",  b |-> b,     n |-> 0, l |-> <<>>, exc |-> "none"]
RetInt(n)   == [kind |-> "int",   b |-> FALSE, n |-> n, l |-> <<>>, exc |-> "none"]
RetList(l)  == [kind |-> "list",  b |-> FALSE, n |-> 0, l |-> l,    exc |-> "none"]
RetNone(l)  == [kind |-> "none",  b |-> FALSE, n |-> 0, l |-> l,    exc |-> "none"]
Raised(e)   == [kind |-> "raise", b |-> FALSE, n |-> 0, l |-> <<>>, exc |-> e]

\* ------------------------------------------------ dict, in insertion order
DictKeys(d)   == {d[i][1] : i \in 1..Len(d)}
DictHas(d, k) == \E i \in 1..Len(d) : d[i][1] = k
DictGet(d, k, dflt) ==
  IF DictHas(d, k) THEN d[CHOOSE i \in 1..Len(d) : d[i][1] = k][2] ELSE dflt
\* d[k] = v: an existing key keeps its place, a new key goes last
DictSet(d, k, v) ==
  IF DictHas(d, k) THEN [i \in 1..Len(d) |-> IF d[i][1] = k THEN <<k, v>> ELSE d[i]]
  ELSE Append(d, <<k, v>>)
\* del d[k]
DictDel(d, k) == SelectSeq(d, LAMBDA e : e[1] # k)

\* -------------------------------------------------------------- the store
\* isinstance(item, str) and item.strip() != ""
ValidItem(item) == item.t = "str" /\ Strip(item.s) # <<>>

\* add_item as it would be with "=" for "+=": the quantity replaces the entry
add_item_overwrite(sd, item, qty) ==
  IF ~ValidItem(item) THEN [data |-> sd, ret |-> RetBool(FALSE)]
  ELSE LET c == ToInt(qty)
       IN IF ~c.ok
          THEN [data |-> sd,
                ret  |-> IF Caught(c.exc) THEN RetBool(FALSE) ELSE Raised(c.exc)]
          ELSE [data |-> DictSet(sd, item.s, c.val), ret |-> RetBool(TRUE)]

\* add_item as it would be with stock_data.setdefault(item, 0) ahead of int(qty)
add_item_setdefault(sd, item, qty) ==
  IF ~ValidItem(item) THEN [data |-> sd, ret |-> RetBool(FALSE)]
  ELSE LET c  == ToInt(qty)
           d0 == DictSet(sd, item.s, DictGet(sd, item.s, 0))
       IN IF ~c.ok
          THEN [data |-> d0,
                ret  |-> IF Caught(c.exc) THEN RetBool(FALSE) ELSE Raised(c.exc)]
          ELSE [data |-> DictSet(d0, item.s, DictGet(d0, item.s, 0) + c.val),
                ret  |-> RetBool(TRUE)]

add_item(sd, item, qty) ==
  IF ~ValidItem(item) THEN [data |-> sd, ret |-> RetBool(FALSE)]
  ELSE LET c == ToInt(qty)
       IN IF ~c.ok
          THEN [data |-> sd,
                ret  |-> IF Caught(c.exc) THEN RetBool(FALSE) ELSE Raised(c.exc)]
          ELSE [data |-> DictSet(sd, item.s, DictGet(sd, item.s, 0) + c.val),
                ret  |-> RetBool(TRUE)]

remove_item(sd, item, qty) ==
  IF ~ValidItem(item) THEN [data |-> sd, ret |-> RetBool(FALSE)]
  ELSE LET c == ToInt(qty)
       IN IF ~c.ok
          THEN [data |-> sd,
                ret  |-> IF Caught(c.exc) THEN RetBool(FALSE) ELSE Raised(c.exc)]
          ELSE IF ~DictHas(sd, item.s) THEN [data |-> sd, ret |-> RetBool(FALSE)]
          ELSE LET left == DictGet(sd, item.s, 0) - c.val
               IN [data |-> IF left <= 0 THEN DictDel(sd, item.s)
                            ELSE DictSet(sd, item.s, left),
                   ret  |-> RetBool(TRUE)]

get_qty(sd, item) ==
  IF ~ValidItem(item) THEN RetInt(0) ELSE RetInt(DictGet(sd, item.s, 0))

check_low_items(sd, threshold) ==
  LET c == ToInt(threshold)
  IN IF ~c.ok THEN (IF Caught(c.exc) THEN RetList(<<>>) ELSE Raised(c.exc))
     ELSE LET low == SelectSeq(sd, LAMBDA e : e[2] < c.val)
          IN RetList([i \in 1..Len(low) |-> low[i][1]])

\* s < t in the order of Python's str comparison
RECURSIVE StrLess(_, _)
StrLess(s, t) ==
  IF t = <<>> THEN FALSE
  ELSE IF s = <<>> THEN TRUE
  ELSE IF Head(s) = Head(t) THEN StrLess(Tail(s), Tail(t))
  ELSE CharCode(Head(s)) < CharCode(Head(t))

\* sorted(keys)
RECURSIVE Sorted(_)
Sorted(ks) ==
  IF ks = {} THEN <<>>
  ELSE LET m == CHOOSE k \in ks : \A o \in ks \ {k} : StrLess(k, o)
       IN <<m>> \o Sorted(ks \ {m})

\* the lines print_data writes after the header, "<item> -> <quantity>"
print_data(sd) ==
  LET ks == Sorted(DictKeys(sd))
  IN RetNone([i \in 1..Len(ks) |->
                ks[i] \o <<" ", "-", ">", " ">> \o IntToStr(DictGet(sd, ks[i], 0))])

\* -------------------------------------------------------------- the files
JInt(text) == [j |-> "int",   h |-> 0, text |-> text]
JReal(h)   == [j |-> "real",  h |-> h, text |-> <<>>]
JHuge      == [j |-> "huge",  h |-> 0, text |-> <<>>]
JStr(text) == [j |-> "str",   h |-> 0, text |-> text]
JNull      == [j |-> "null",  h |-> 0, text |-> <<>>]
JTrue      == [j |-> "true",  h |-> 0, text |-> <<>>]
JArray     == [j |-> "array", h |-> 0, text |-> <<>>]

NoFile     == [kind |-> "missing",   doc |-> <<>>]
NotUtf8    == [kind |-> "notutf8",   doc |-> <<>>]
Malformed  == [kind |-> "malformed", doc |-> <<>>]
NonObject  == [kind |-> "nonobject", doc |-> <<>>]
Object(d)  == [kind |-> "object",    doc |-> d]

\* the Python value json.load makes of a JSON value: an integer literal goes
\* through int(), a literal too large for a float (1e999) becomes inf
JsonToPy(v) ==
  CASE v.j = "int"   -> PyInt(StrToInt(v.text).val)
    [] v.j = "real"  -> PyFloat(v.h)
    [] v.j = "huge"  -> PyInf
    [] v.j = "str"   -> PyStr(v.text)
    [] v.j = "true"  -> PyBool(TRUE)
    [] v.j = "null"  -> PyNone
    [] OTHER         -> PyList

\* the loop of load_data as it would be if it also skipped negative quantities
RECURSIVE Normalize_nonneg(_, _)
Normalize_nonneg(doc, acc) ==
  IF doc = <<>> THEN [ok |-> TRUE, data |-> acc, exc |-> "none"]
  ELSE LET c == ToInt(JsonToPy(Head(doc)[2]))
       IN IF c.ok /\ c.val >= 0
          THEN Normalize_nonneg(Tail(doc), DictSet(acc, Head(doc)[1], c.val))
          ELSE IF c.ok \/ Caught(c.exc) THEN Normalize_nonneg(Tail(doc), acc)
          ELSE [ok |-> FALSE, data |-> acc, exc |-> c.exc]

\* the loop of load_data over data.items(): normalized[str(k)] = int(v),
\* a ValueError or TypeError skips the pair, any other exception escapes
RECURSIVE Normalize(_, _)
Normalize(doc, acc) ==
  IF doc = <<>> THEN [ok |-> TRUE, data |-> acc, exc |-> "none"]
  ELSE LET c == ToInt(JsonToPy(Head(doc)[2]))
       IN IF c.ok THEN Normalize(Tail(doc), DictSet(acc, Head(doc)[1], c.val))
          ELSE IF Caught(c.exc) THEN Normalize(Tail(doc), acc)
          ELSE [ok |-> FALSE, data |-> acc, exc |-> c.exc]

\* load_data as it would be without "stock_data = {}" under JSONDecodeError
load_data_keep(sd, f, fault) ==
  IF fault = "oserror" THEN [data |-> sd, ret |-> RetBool(FALSE)]
  ELSE IF f.kind = "missing" THEN [data |-> <<>>, ret |-> RetBool(FALSE)]
  ELSE IF f.kind = "notutf8" THEN [data |-> sd, ret |-> Raised("UnicodeDecodeError")]
  ELSE IF f.kind = "malformed" THEN [data |-> sd, ret |-> RetBool(FALSE)]
  ELSE IF f.kind = "nonobject" THEN [data |-> sd, ret |-> RetBool(FALSE)]
  ELSE LET r == Normalize(f.doc, <<>>)
       IN IF r.ok THEN [data |-> r.data, ret |-> RetBool(TRUE)]
          ELSE [data |-> sd, ret |-> Raised(r.exc)]

\* fault: "oserror" when open() or the read raises an OSError other than
\* FileNotFoundError (no permission, a directory, a failing device)
load_data(sd, f, fault) ==
  IF fault = "oserror" THEN [data |-> sd, ret |-> RetBool(FALSE)]
  ELSE IF f.kind = "missing" THEN [data |-> <<>>, ret |-> RetBool(FALSE)]
  ELSE IF f.kind = "notutf8" THEN [data |-> sd, ret |-> Raised("UnicodeDecodeError")]
  ELSE IF f.kind = "malformed" THEN [data |-> <<>>, ret |-> RetBool(FALSE)]
  ELSE IF f.kind = "nonobject" THEN [data |-> sd, ret |-> RetBool(FALSE)]
  ELSE LET r == Normalize(f.doc, <<>>)
       IN IF r.ok THEN [data |-> r.data, ret |-> RetBool(TRUE)]
          ELSE [data |-> sd, ret |-> Raised(r.exc)]

\* json.dump(stock_data): every key with the decimal text of its quantity
JsonDump(sd) == [i \in 1..Len(sd) |-> <<sd[i][1], JInt(IntToStr(sd[i][2]))>>]

\* save_data as it would be if it removed the target ahead of open()
save_data_unlink(sd, f, fault) ==
  IF fault = "open" THEN [file |-> NoFile, ret |-> RetBool(FALSE)]
  ELSE IF fault = "write" THEN [file |-> Malformed, ret |-> RetBool(FALSE)]
  ELSE [file |-> Object(JsonDump(sd)), ret |-> RetBool(TRUE)]

\* fault: "open" when open(file, "w") raises an OSError, "write" when the
\* write or the closing flush does, after open() has truncated the file
save_data(sd, f, fault) ==
  IF fault = "open" THEN [file |-> f, ret |-> RetBool(FALSE)]
  ELSE IF fault = "write" THEN [file |-> Malformed, ret |-> RetBool(FALSE)]
  ELSE [file |-> Object(JsonDump(sd)), ret |-> RetBool(TRUE)]

\* ------------------------------------------------------- the state machine
VARIABLES stock_data,  \* the module-level dict, <<item, quantity>> in insertion order
          fs,          \* the file behind each path
          call,        \* the last call: function, arguments, injected I/O fault
          ret,         \* what the last call returned, or the exception it raised
          pre,         \* stock_data when the last call began
          prefs,       \* fs when the last call began
          saved,       \* the path the call before the last one saved to with
                       \* success, "" when that call was no successful save
          ledger       \* per valid name: the sum of the quantities added since the
                       \* name was last absent, and whether a remove that kept the
                       \* name or a load that brought it has intervened since
vars == <<stock_data, fs, call, ret, pre, prefs, saved, ledger>>

\* the default path of load_data and save_data, the one main uses
Paths == {"inventory.json"}

NameA     == <<"a">>
NameB     == <<" ", "b">>
NameBlank == <<" ">>
NameEmpty == <<>>

\* the item arguments: two valid names (one with a leading blank, which the
\* key keeps), a whitespace-only and an empty string, and a non-string
ItemArgs == {PyStr(NameA), PyStr(NameB), PyStr(NameBlank), PyStr(NameEmpty), PyInt(123)}
ValidNames == {i.s : i \in {x \in ItemArgs : ValidItem(x)}}

\* the quantity arguments: integers, a numeric and a non-numeric string, a
\* float, a non-finite float and None
QtyArgs == {PyInt(0 - 1), PyInt(2), PyStr(<<" ", "1">>), PyStr(<<"t", "e", "n">>),
            PyFloat(3), PyInf, PyNone}
\* the <<item, quantity>> arguments of add_item and remove_item: every valid
\* name with every quantity, every invalid name with a good quantity
CallArgs == ({x \in ItemArgs : ValidItem(x)} \X QtyArgs)
              \cup ({x \in ItemArgs : ~ValidItem(x)} \X {PyInt(2)})
\* fewer of them, for the runs that also write files
FewAddArgs    == ({PyStr(NameA)} \X {PyInt(0 - 1), PyInt(2)}) \cup {<<PyStr(NameB), PyInt(2)>>}
FewRemoveArgs == {x \in ItemArgs : ValidItem(x)} \X {PyStr(<<" ", "1">>)}
ThresholdArgs == {PyInt(0), PyInt(2), PyStr(<<"t", "e", "n">>), PyNaN, PyInf}

\* the files found on disk at start
InitFiles ==
  { NoFile, NotUtf8, Malformed, NonObject,
    Object(<<<<NameBlank, JInt(<<"1">>)>>, <<NameA, JReal(0 - 3)>>>>),
    Object(<<<<NameA, JNull>>, <<NameB, JStr(<<"0", "_", "1">>)>>,
             <<NameEmpty, JStr(<<"t", "e", "n">>)>>, <<NameBlank, JArray>>>>),
    Object(<<<<NameB, JTrue>>, <<NameA, JHuge>>>>) }

InRange(d) == \A i \in 1..Len(d) : d[i][2] \in (0 - 1)..MaxQty

NoCall == [op |-> "none", item |-> PyNone, arg |-> PyNone, path |-> "", fault |-> "none"]
Call(op, item, arg, path, fault) ==
  [op |-> op, item |-> item, arg |-> arg, path |-> path, fault |-> fault]

Fresh   == [tracked |-> TRUE,  sum |-> 0]
Broken  == [tracked |-> FALSE, sum |-> 0]

\* the path of the last call when it was a successful save_data
JustSaved == IF call.op = "save" /\ ret = RetBool(TRUE) THEN call.path ELSE ""

Init ==
  /\ stock_data = <<>>
  /\ fs \in [Paths -> InitFiles]
  /\ call = NoCall
  /\ ret = RetNone(<<>>)
  /\ pre = <<>>
  /\ prefs = fs
  /\ saved = ""
  /\ ledger = [k \in ValidNames |-> Fresh]

AddItem(item, qty) ==
  LET r == add_item(stock_data, item, qty)
  IN /\ InRange(r.data)
     /\ stock_data' = r.data
     /\ ret' = r.ret
     /\ call' = Call("add", item, qty, "", "none")
     /\ pre' = stock_data
     /\ prefs' = fs
     /\ saved' = JustSaved
     /\ ledger' = IF r.ret = RetBool(TRUE) /\ ledger[item.s].tracked
                  THEN [ledger EXCEPT ![item.s].sum = @ + ToInt(qty).val]
                  ELSE ledger
     /\ UNCHANGED fs

RemoveItem(item, qty) ==
  LET r == remove_item(stock_data, item, qty)
  IN /\ InRange(r.data)
     /\ stock_data' = r.data
     /\ ret' = r.ret
     /\ call' = Call("remove", item, qty, "", "none")
     /\ pre' = stock_data
     /\ prefs' = fs
     /\ saved' = JustSaved
     /\ ledger' = IF r.ret = RetBool(TRUE)
                  THEN [ledger EXCEPT ![item.s] =
                          IF DictHas(r.data, item.s) THEN Broken ELSE Fresh]
                  ELSE ledger
     /\ UNCHANGED fs

\* get_qty as it would be with stock_data.setdefault(item, 0) for .get(item, 0)
GetQty_setdefault(item) ==
  /\ ret' = get_qty(stock_data, item)
  /\ stock_data' = IF ValidItem(item) /\ ~DictHas(stock_data, item.s)
                   THEN Append(stock_data, <<item.s, 0>>) ELSE stock_data
  /\ call' = Call("query", item, PyNone, "", "none")
  /\ pre' = stock_data
  /\ prefs' = fs
  /\ saved' = JustSaved
  /\ UNCHANGED <<fs, ledger>>

GetQty(item) ==
  /\ ret' = get_qty(stock_data, item)
  /\ call' = Call("query", item, PyNone, "", "none")
  /\ pre' = stock_data
  /\ prefs' = fs
  /\ saved' = JustSaved
  /\ UNCHANGED <<stock_data, fs, ledger>>

CheckLowItems(threshold) ==
  /\ ret' = check_low_items(stock_data, threshold)
  /\ call' = Call("low", PyNone, threshold, "", "none")
  /\ pre' = stock_data
  /\ prefs' = fs
  /\ saved' = JustSaved
  /\ UNCHANGED <<stock_data, fs, ledger>>

PrintData ==
  /\ ret' = print_data(stock_data)
  /\ call' = Call("report", PyNone, PyNone, "", "none")
  /\ pre' = stock_data
  /\ prefs' = fs
  /\ saved' = JustSaved
  /\ UNCHANGED <<stock_data, fs, ledger>>

LoadData(file, fault) ==
  LET r == load_data(stock_data, fs[file], fault)
  IN /\ InRange(r.data)
     /\ stock_data' = r.data
     /\ ret' = r.ret
     /\ call' = Call("load", PyNone, PyNone, file, fault)
     /\ pre' = stock_data
     /\ prefs' = fs
     /\ saved' = JustSaved
     /\ ledger' = [k \in ValidNames |-> IF DictHas(r.data, k) THEN Broken ELSE Fresh]
     /\ UNCHANGED fs

SaveData(file, fault) ==
  LET r == save_data(stock_data, fs[file], fault)
  IN /\ fs' = [fs EXCEPT ![file] = r.file]
     /\ ret' = r.ret
     /\ call' = Call("save", PyNone, PyNone, file, fault)
     /\ pre' = stock_data
     /\ prefs' = fs
     /\ saved' = JustSaved
     /\ UNCHANGED <<stock_data, ledger>>

\* every function of the module, on every argument
Next ==
  \/ \E a \in CallArgs : AddItem(a[1], a[2])
  \/ \E a \in CallArgs : RemoveItem(a[1], a[2])
  \/ \E item \in ItemArgs : GetQty(item)
  \/ \E threshold \in ThresholdArgs : CheckLowItems(threshold)
  \/ PrintData
  \/ \E file \in Paths, fault \in {"none", "oserror"} : LoadData(file, fault)
  \/ \E file \in Paths, fault \in {"none", "open", "write"} : SaveData(file, fault)

Spec == Init /\ [][Next]_vars

\* the store: every function but save_data, so that the files stay as found
NextStore ==
  \/ \E a \in CallArgs : AddItem(a[1], a[2])
  \/ \E a \in CallArgs : RemoveItem(a[1], a[2])
  \/ \E item \in ItemArgs : GetQty(item)
  \/ \E threshold \in ThresholdArgs : CheckLowItems(threshold)
  \/ PrintData
  \/ \E file \in Paths, fault \in {"none", "oserror"} : LoadData(file, fault)

SpecStore == Init /\ [][NextStore]_vars

\* the files: every function, add_item and remove_item on fewer arguments
NextFiles ==
  \/ \E a \in FewAddArgs : AddItem(a[1], a[2])
  \/ \E a \in FewRemoveArgs : RemoveItem(a[1], a[2])
  \/ \E item \in ItemArgs : GetQty(item)
  \/ \E threshold \in ThresholdArgs : CheckLowItems(threshold)
  \/ PrintData
  \/ \E file \in Paths, fault \in {"none", "oserror"} : LoadData(file, fault)
  \/ \E file \in Paths, fault \in {"none", "open", "write"} : SaveData(file, fault)

SpecFiles == Init /\ [][NextFiles]_vars

C2_RejectedCallKeepsMapping ==
  (call.op \in {"add", "remove"} /\ ret = RetBool(FALSE)) => stock_data = pre

\* an add of a valid name rejected for its quantity, on a dictionary that
\* holds another name but not this one
C2_Witness ==
  /\ call.op = "add" /\ ret = RetBool(FALSE)
  /\ ValidItem(call.item) /\ ~ToInt(call.arg).ok
  /\ pre # <<>> /\ ~DictHas(pre, call.item.s)

\* C3: a remove of any item that is in the dictionary with quantity q, by an
\* integer r, returns True; the item is gone and queries as 0 when q - r <= 0,
\* and holds q - r otherwise; no other entry changes.
C3_RemoveOfPresentItem ==
  (call.op = "remove" /\ call.item.t = "str" /\ call.arg.t = "int"
     /\ DictHas(pre, call.item.s))
  => LET left == DictGet(pre, call.item.s, 0) - call.arg.n
     IN /\ ret = RetBool(TRUE)
        /\ IF left <= 0
           THEN ~DictHas(stock_data, call.item.s) /\ get_qty(stock_data, call.item) = RetInt(0)
           ELSE DictHas(stock_data, call.item.s) /\ DictGet(stock_data, call.item.s, 0) = left
        /\ \A k \in DictKeys(pre) \ {call.item.s} :
             DictHas(stock_data, k) /\ DictGet(stock_data, k, 0) = DictGet(pre, k, 0)

\* C4: a load that directly follows a successful save to the same path returns
\* True and leaves the dictionary equal to the one that was saved.
C4_RoundTripReturnsTrue ==
  (call.op = "load" /\ saved = call.path) => (ret = RetBool(TRUE) /\ stock_data = pre)

\* C4, amended: a load that directly follows a successful save to the same
\* path leaves the dictionary equal to the one that was saved, keys, values and
\* order; it returns True unless an OSError hits the read, and False then.
C4_RoundTrip ==
  (call.op = "load" /\ saved = call.path)
  => (stock_data = pre /\ ret = RetBool(call.fault = "none"))

\* a save and a load of a dictionary of two entries, one of them negative
C4_Witness ==
  /\ call.op = "load" /\ saved = call.path /\ ret = RetBool(TRUE)
  /\ Len(stock_data) >= 2
  /\ \E i \in 1..Len(stock_data) : stock_data[i][2] < 0

\* C5: when load returns False the dictionary is empty if the file was missing
\* or no valid JSON, and is the dictionary held before the call if the root of
\* the file was no object or another OSError occurred; nothing else makes load
\* return False.
C5_FailedLoad ==
  (call.op = "load" /\ ret = RetBool(FALSE))
  => IF call.fault = "oserror" THEN stock_data = pre
     ELSE CASE prefs[call.path].kind \in {"missing", "malformed"} -> stock_data = <<>>
            [] prefs[call.path].kind = "nonobject" -> stock_data = pre
            [] OTHER -> FALSE

\* a load of a file that is no valid JSON, into a dictionary that held entries
C5_Witness ==
  /\ call.op = "load" /\ ret = RetBool(FALSE) /\ call.fault = "none"
  /\ prefs[call.path].kind = "malformed"
  /\ pre # <<>> /\ stock_data = <<>>

\* C6: a load that reads a file whose root is an object returns True, and the
\* dictionary is then exactly the pairs of the file whose value coerces to an
\* integer: no other pair of the file, and no key of the dictionary before.
C6_LoadOfObject ==
  (call.op = "load" /\ call.fault = "none" /\ prefs[call.path].kind = "object")
  => LET good == SelectSeq(prefs[call.path].doc, LAMBDA e : ToInt(JsonToPy(e[2])).ok)
     IN /\ ret = RetBool(TRUE)
        /\ stock_data = [i \in 1..Len(good) |->
                           <<good[i][1], ToInt(JsonToPy(good[i][2])).val>>]

\* C7: check_low_items returns the items whose quantity is below the threshold,
\* each once and in insertion order, when the threshold coerces to an integer,
\* and the empty list when it does not.
C7_LowItems ==
  call.op = "low"
  => IF ToInt(call.arg).ok
     THEN LET low == SelectSeq(pre, LAMBDA e : e[2] < ToInt(call.arg).val)
          IN ret = RetList([i \in 1..Len(low) |-> low[i][1]])
     ELSE ret = RetList(<<>>)

\* C8: no call ends with an exception; each returns a value.
C8_NoExceptionEscapes == ret.kind # "raise"

\* C9: a save that returns False leaves the file at its path as it was, and
\* the dictionary unchanged.
C9_FailedSaveKeepsFile ==
  (call.op = "save" /\ ret = RetBool(FALSE))
  => (fs[call.path] = prefs[call.path] /\ stock_data = pre)

\* C9, amended: a save that returns False leaves the dictionary unchanged, and
\* leaves every file as it was when the failure is that of open(); a failure
\* of the write comes after open() has truncated the file.
C9_FailedSave ==
  (call.op = "save" /\ ret = RetBool(FALSE))
  => (stock_data = pre /\ (call.fault = "open" => fs = prefs))

\* a save that fails at open() over a file that holds a root object, with a
\* dictionary that differs from it
C9_Witness ==
  /\ call.op = "save" /\ ret = RetBool(FALSE) /\ call.fault = "open"
  /\ prefs[call.path].kind = "object"
  /\ stock_data # <<>> /\ JsonDump(stock_data) # prefs[call.path].doc

\* C10: get_qty, check_low_items, print_data and save_data leave the dictionary
\* as it was when the call began, whatever the argument and the outcome; a
\* dictionary that differs comes from add_item, remove_item or load_data.
C10_ReadOnlyCalls ==
  /\ call.op \in {"query", "low", "report", "save"} => stock_data = pre
  /\ stock_data # pre => call.op \in {"add", "remove", "load"}

\* a query of a valid name that a dictionary with entries does not hold
C10_Witness ==
  /\ call.op = "query" /\ ValidItem(call.item)
  /\ stock_data # <<>> /\ ~DictHas(stock_data, call.item.s)

====
